---- MODULE Spec2Model ----
(***************************************************************************)
(* Model of examine_3d-tile.py: statistics for the tiles of a 3D tileset.  *)
(*                                                                         *)
(* Three specifications share the module:                                  *)
(*   TileSpec     one tile through process_tile_parallel, face by face     *)
(*                through the UV rasterizer;                               *)
(*   TraverseSpec load_tileset over a bounded tileset tree;                *)
(*   Spec         main: the process pool, the filter/sort and              *)
(*                write_results_to_csv.                                    *)
(*                                                                         *)
(* Python values are encoded as follows.  An optional value is a sequence: *)
(* None is << >> and a present value x is <<x>>.  A float that is a        *)
(* quotient a / b is the pair <<a, b>>.  UV coordinates are rationals      *)
(* n / UVDen, held as the integer n.  A raised exception is a pc value.    *)
(***************************************************************************)
EXTENDS Integers, Sequences, FiniteSets, TLC

VARIABLES
    \* ---- one tile (TileSpec) ----
    asset,          \* what is at glb_file_path: "missing", "unparseable", "no_mesh", "mesh"
    has_uv,         \* bm.loops.layers.uv.active is set
    image,          \* the bound texture's size <<w, h>> as an optional value
    grid,           \* the cells <<v, u>> with grid[v][u] = 1
    texel_sizes,    \* one entry per appended texel size
    pixel_count,    \* the local pixel_count of the face rastered last
    last_face,      \* what the face rastered last looked like
    nfaces,         \* faces rastered so far
    stats,          \* what process_glb_file returned
    result,         \* what process_tile_parallel returned
    tpc,            \* position in the tile's processing
    \* ---- the traversal (TraverseSpec) ----
    tileset,        \* the tileset documents: the tree of tiles
    tiles_dir,      \* the files os.walk finds under base_path/tiles, in its order
    tile_id_counter,\* the global counter
    tiles_to_process,   \* load_tileset's list
    calls,          \* per visited node, the arguments process_tile_structure got
    lpc,            \* position of load_tileset
    \* ---- main: the pool and the report (Spec) ----
    assets,         \* per tile of the tileset, what is at its .glb path
    next_task,      \* index of the next descriptor the pool hands to a worker
    running,        \* per worker, the index of the descriptor it processes, or 0
    finished,       \* the indices of the processed descriptors, in order of completion
    results,        \* main's list of results
    report,         \* what write_results_to_csv wrote, as an optional value
    mpc             \* position of main after load_tileset

tile_vars == <<asset, has_uv, image, grid, texel_sizes, pixel_count, last_face,
               nfaces, stats, result, tpc>>

trav_vars == <<tileset, tiles_dir, tile_id_counter, tiles_to_process, calls, lpc>>

main_vars == <<assets, next_task, running, finished, results, report, mpc>>

vars == <<tile_vars, trav_vars, main_vars>>

----------------------------------------------------------------------------
\* Bounds of the model.

MaxTiles == 3       \* tiles of the tilesets main runs on
NumWorkers == 2     \* processes of the pool
MaxNodes == 4       \* tiles of a tileset, nested documents included
MaxFaces == 2       \* faces of a mesh
NegU     == 4       \* u coordinates run from -NegU / UVDen ...
MaxU     == 3       \* ... to MaxU / UVDen
MaxV     == 2       \* v coordinates run from 0 to MaxV / UVDen
UVDen    == 2       \* denominator of the UV coordinates

\* Program constants.
FractionNum == 1    \* fraction = 0.5
FractionDen == 2

None == << >>
Some(x) == <<x>>

UCoords == (0 - NegU)..MaxU
VCoords == 0..MaxV
UVPoints == UCoords \X VCoords
\* A face is a triangle: the three uv of its loops, and its 3D area.  The
\* rasterizer reads the loops through min, max and point_in_triangle_uv, all
\* symmetric in the three points, so the loops are listed in one order only.
PointLeq(p, q) == p[1] < q[1] \/ (p[1] = q[1] /\ p[2] <= q[2])
Triangles == {t \in UVPoints \X UVPoints \X UVPoints :
                 PointLeq(t[1], t[2]) /\ PointLeq(t[2], t[3])}
FaceAreas == {1, 3}
Faces == [uv : Triangles, area : FaceAreas]
\* Texture sizes: grid resolutions 2, 1 and 0.
Images == {<<4, 2>>, <<2, 2>>, <<1, 1>>}

----------------------------------------------------------------------------
\* Helpers.

Max2(a, b) == IF a >= b THEN a ELSE b
Min2(a, b) == IF a <= b THEN a ELSE b
Min3(a, b, c) == Min2(a, Min2(b, c))
Max3(a, b, c) == Max2(a, Max2(b, c))

\* Python's int(a / b) for b > 0: truncation toward zero.
int(a, b) == IF a >= 0 THEN a \div b ELSE 0 - ((0 - a) \div b)

\* range(a, b)
range(a, b) == a..(b - 1)

----------------------------------------------------------------------------
\* Tileset traversal.
\*
\* A tileset is a tree of n tiles, 1 its root: parent[c] is the tile c hangs
\* from, kind[c] its content ("none", "glb", "json" or "template", a uri with
\* {level} in it), no_error the tiles without geometricError (the others have
\* 16).  Under a "json" tile the first tile hanging from it is the root of the
\* nested document (a "json" tile with nothing hanging from it refers to a
\* document whose root is empty); every other tile hanging from a tile is one
\* of its children, in order.

Kinds == {"none", "glb", "json", "template"}
File(l) == [match |-> TRUE, level |-> l]
OtherFile == [match |-> FALSE, level |-> 0]
\* Directory listings: a file is tiles/<level>/<x>/<y>/<z>.glb or does not
\* match the pattern.
FileLists == {<<>>, <<File(1)>>, <<File(2), File(0)>>, <<OtherFile, File(1)>>}

Tilesets ==
    UNION {[n : {N},
            parent : {f \in [1..N -> 0..(N - 1)] :
                         f[1] = 0 /\ \A c \in 2..N : f[c] \in 1..(c - 1)},
            kind : [1..N -> Kinds],
            \* geometricError is missing nowhere, at one tile, or everywhere
            no_error : {{}} \cup {{c} : c \in 1..N} \cup {1..N}] : N \in 1..MaxNodes}

geometricError(ts, c) == IF c \in ts.no_error THEN None ELSE Some(16)

\* The tiles hanging from p, ascending.
RECURSIVE SetToSeq(_)
SetToSeq(S) ==
    IF S = {} THEN <<>>
    ELSE LET m == CHOOSE x \in S : \A y \in S : x <= y
         IN  <<m>> \o SetToSeq(S \ {m})
attached(ts, p) == SetToSeq({c \in 1..ts.n : ts.parent[c] = p})
nested_root(ts, p) ==
    IF ts.kind[p] = "json" /\ attached(ts, p) # <<>> THEN Some(attached(ts, p)[1]) ELSE None
children(ts, p) ==
    IF ts.kind[p] = "json" /\ attached(ts, p) # <<>> THEN Tail(attached(ts, p))
    ELSE attached(ts, p)

\* The descriptor appended for tile c (file k of the listing for a template).
descriptor(ts, c, k, lod_level, tile_id, parent_id) ==
    [lod_level |-> lod_level, tile_id |-> tile_id, parent_id |-> parent_id,
     tile_url |-> <<c, k>>, screen_space_error |-> geometricError(ts, c)]

\* The matching files of the listing, in its order.
matching(files) == SelectSeq(files, LAMBDA f : f.match)

\* process_tile_structure on tile c.  st = [tiles, counter, calls, raised];
\* the local tile_id is an optional value, None while it is unbound.
RECURSIVE process_tile_structure(_, _, _, _, _, _)
RECURSIVE process_children(_, _, _, _, _, _, _)

\* `for child in tile['children']`: evaluating the argument tile_id raises
\* UnboundLocalError where no branch above has assigned it.
process_children(ts, files, kids, k, tile_id, lod_level, st) ==
    IF k > Len(kids) \/ st.raised THEN st
    ELSE IF tile_id = None THEN [st EXCEPT !.raised = TRUE]
    ELSE process_children(ts, files, kids, k + 1, tile_id, lod_level,
             process_tile_structure(ts, files, kids[k], tile_id, lod_level + 1, st))

process_tile_structure(ts, files, c, parent_id, lod_level, st) ==
    LET st0 == [st EXCEPT !.calls = @ @@ (c :> [parent_id |-> parent_id,
                                                lod_level |-> lod_level])]
        found == matching(files)
        \* the state and the local tile_id after the content branches
        after ==
            IF ts.kind[c] = "template"
            THEN [st |-> [st0 EXCEPT
                            !.tiles = @ \o [k \in 1..Len(found) |->
                                descriptor(ts, c, k, found[k].level,
                                           st0.counter + k, parent_id)],
                            !.counter = @ + Len(found)],
                  tile_id |-> IF found = <<>> THEN None
                              ELSE Some(st0.counter + Len(found))]
            ELSE IF ts.kind[c] = "json"
            THEN [st |-> IF nested_root(ts, c) = None THEN st0
                         ELSE process_tile_structure(ts, files, nested_root(ts, c)[1],
                                                     parent_id, lod_level, st0),
                  tile_id |-> None]
            ELSE IF ts.kind[c] = "glb"
            THEN [st |-> [st0 EXCEPT
                            !.tiles = Append(@, descriptor(ts, c, 0, lod_level,
                                                           st0.counter + 1, parent_id)),
                            !.counter = @ + 1],
                  tile_id |-> Some(st0.counter + 1)]
            ELSE [st |-> st0, tile_id |-> None]
    IN  process_children(ts, files, children(ts, c), 1,
                         IF after.tile_id = None THEN None ELSE Some(after.tile_id[1]),
                         lod_level, after.st)

\* A variant of insert_by_lod that puts a tile before those of its own level.
RECURSIVE insert_before_equal(_, _)
insert_before_equal(sorted, x) ==
    IF sorted = <<>> THEN <<x>>
    ELSE IF Head(sorted).lod_level < x.lod_level
         THEN <<Head(sorted)>> \o insert_before_equal(Tail(sorted), x)
         ELSE <<x>> \o sorted

\* list.sort(key=lod_level) is stable: x goes after every tile whose level is
\* not above its own.
RECURSIVE insert_by_lod(_, _)
insert_by_lod(sorted, x) ==
    IF sorted = <<>> THEN <<x>>
    ELSE IF Head(sorted).lod_level <= x.lod_level
         THEN <<Head(sorted)>> \o insert_by_lod(Tail(sorted), x)
         ELSE <<x>> \o sorted

RECURSIVE sort_by_lod(_)
sort_by_lod(seq) ==
    IF seq = <<>> THEN <<>>
    ELSE insert_by_lod(sort_by_lod(SubSeq(seq, 1, Len(seq) - 1)), seq[Len(seq)])

TravInit ==
    /\ tileset \in Tilesets
    /\ tiles_dir \in FileLists
    /\ tile_id_counter = 0
    /\ tiles_to_process = <<>>
    /\ calls = <<>>
    /\ lpc = "start"

\* load_tileset: the traversal from the root, then the sort.
LoadTileset ==
    /\ lpc = "start"
    /\ LET r == process_tile_structure(tileset, tiles_dir, 1, None, 0,
                    [tiles |-> <<>>, counter |-> tile_id_counter,
                     calls |-> <<>>, raised |-> FALSE])
       IN  /\ tile_id_counter' = r.counter
           /\ calls' = r.calls
           /\ IF r.raised
              THEN /\ lpc' = "raised"
                   /\ tiles_to_process' = r.tiles
              ELSE /\ lpc' = "returned"
                   /\ tiles_to_process' = sort_by_lod(r.tiles)
    /\ UNCHANGED <<tileset, tiles_dir>>
    /\ UNCHANGED <<tile_vars, main_vars>>

----------------------------------------------------------------------------
\* UV rasterizer.

\* sign, the nested function of point_in_triangle_uv.
sign(p1, p2, p3) ==
    (p1[1] - p3[1]) * (p2[2] - p3[2]) - (p2[1] - p3[1]) * (p1[2] - p3[2])

point_in_triangle_uv(p, triangle) ==
    LET d1 == sign(p, triangle[1], triangle[2])
        d2 == sign(p, triangle[2], triangle[3])
        d3 == sign(p, triangle[3], triangle[1])
        has_neg == (d1 < 0) \/ (d2 < 0) \/ (d3 < 0)
        has_pos == (d1 > 0) \/ (d2 > 0) \/ (d3 > 0)
    IN  ~(has_neg /\ has_pos)

\* grid_resolution = int(max(image_width, image_height) * fraction)
grid_resolution(img) == int(Max2(img[1], img[2]) * FractionNum, FractionDen)

\* The sample point Vector((u / G, v / G)) and the uv n / UVDen, both scaled
\* by G * UVDen (positive wherever a sample is taken), which keeps every sign.
SamplePoint(u, v) == <<u * UVDen, v * UVDen>>
ScaledUV(uv, G) == [i \in 1..3 |-> <<uv[i][1] * G, uv[i][2] * G>>]

\* The bounds of the two range() loops over a face's UV bounding box.
u_start(uv, G) == int(Min3(uv[1][1], uv[2][1], uv[3][1]) * G, UVDen)
u_stop(uv, G)  == Min2(int(Max3(uv[1][1], uv[2][1], uv[3][1]) * G, UVDen) + 1, G)
v_start(uv, G) == int(Min3(uv[1][2], uv[2][2], uv[3][2]) * G, UVDen)
v_stop(uv, G)  == Min2(int(Max3(uv[1][2], uv[2][2], uv[3][2]) * G, UVDen) + 1, G)

\* A Python list index i into a list of length G: negative indices count from
\* the end, and an index below -G raises IndexError (i < G holds by u_stop).
index_ok(i, G) == i >= 0 - G
list_index(i, G) == IF i < 0 THEN i + G ELSE i

\* Shapes of a face's UV footprint.  Zero UV area: the three points coincide
\* or are collinear.
Degenerate(uv) == sign(uv[1], uv[2], uv[3]) = 0
AllAboveOne(uv) == (\A i \in 1..3 : uv[i][1] > UVDen) \/ (\A i \in 1..3 : uv[i][2] > UVDen)
AllBelowZero(uv) == (\A i \in 1..3 : uv[i][1] < 0) \/ (\A i \in 1..3 : uv[i][2] < 0)

\* A variant of mark_cell that counts a cell an earlier face has marked.
mark_cell_counting_marked(st, cell) ==
    [st EXCEPT !.grid = @ \cup {cell}, !.pixel_count = @ + 1]

\* `if grid[v][u] == 0: grid[v][u] = 1; pixel_count += 1`
mark_cell(st, cell) ==
    IF cell \notin st.grid
    THEN [st EXCEPT !.grid = @ \cup {cell}, !.pixel_count = @ + 1]
    ELSE st

\* The samples <<u, v>> of the two nested range() loops, in loop order
\* (u outer, v inner).
bbox_samples(uv, G) ==
    LET u0 == u_start(uv, G)
        v0 == v_start(uv, G)
        nu == Max2(u_stop(uv, G) - u0, 0)
        nv == Max2(v_stop(uv, G) - v0, 0)
    IN  [k \in 1..(nu * nv) |-> <<u0 + ((k - 1) \div nv), v0 + ((k - 1) % nv)>>]

\* The samples for which `if point_in_triangle_uv(point, uv_coords)` holds.
face_hits(uv, G) ==
    SelectSeq(bbox_samples(uv, G),
              LAMBDA s : point_in_triangle_uv(SamplePoint(s[1], s[2]), ScaledUV(uv, G)))

\* What the loop body reads of a face: its hits in loop order and its area;
\* and, for stating the claims, the shape of its UV footprint.
FaceView(face, G) ==
    [hits |-> face_hits(face.uv, G), area |-> face.area,
     degenerate |-> Degenerate(face.uv),
     above_one |-> AllAboveOne(face.uv),
     below_zero |-> AllBelowZero(face.uv)]
NoFace == [hits |-> <<>>, area |-> 0, degenerate |-> FALSE,
           above_one |-> FALSE, below_zero |-> FALSE]

\* The faces a mesh bound to a texture of size img can hold.
FaceViews == [img \in Images |-> {FaceView(f, grid_resolution(img)) : f \in Faces}]

\* The marking of the hits from hit k onward; st = [grid, pixel_count, error].
RECURSIVE mark_loop(_, _, _, _)
mark_loop(hits, G, k, st) ==
    IF k > Len(hits) THEN st
    ELSE LET u == hits[k][1]
             v == hits[k][2]
         IN  IF ~(index_ok(v, G) /\ index_ok(u, G))
             THEN [st EXCEPT !.error = TRUE]
             ELSE mark_loop(hits, G, k + 1,
                      mark_cell(st, <<list_index(v, G), list_index(u, G)>>))

\* One iteration of `for face in bm.faces`, for the face seen as view.
raster_face(view, G, g) ==
    mark_loop(view.hits, G, 1, [grid |-> g, pixel_count |-> 0, error |-> FALSE])

\* The grid cells of the hits of a face.
PassingCells(view, G) ==
    {<<list_index(view.hits[k][2], G), list_index(view.hits[k][1], G)>> :
        k \in 1..Len(view.hits)}

\* The float appended to texel_sizes, squared, as a quotient:
\* face_area / (pixel_count * (image_width / G) * (image_height / G)).
texel_size(face_area, count, img, G) ==
    <<face_area * G * G, count * img[1] * img[2]>>

----------------------------------------------------------------------------
\* One tile: process_tile_parallel -> process_glb_file -> calculate_statistics
\* -> calculate_texel_sizes_and_utilization.

\* The descriptor of the tile processed in TileSpec.
TileInfo0 == [lod_level |-> 0, tile_id |-> 1, parent_id |-> None,
              tile_url |-> <<1, 0>>, screen_space_error |-> Some(16)]

\* `return [], 0` of the two early exits (no UV layer, no texture).
early_return == << <<>>, 0 >>
\* `return texel_sizes, texture_utilization, image_width`
full_return(sizes, g, img) ==
    << sizes, <<Cardinality(g), grid_resolution(img) * grid_resolution(img)>>, img[1] >>

\* calculate_statistics from its unpacking of the returned tuple on:
\* "raise" where `sizes, texture_utilization, texture_width = ...` lacks values,
\* None where sizes is empty, the statistics otherwise.  The means, medians and
\* deviations are functions of sizes and of the mesh's edges; sizes stands for
\* the three texel statistics and the edge statistics are left out.
calculate_statistics(ret, n_faces) ==
    IF Len(ret) # 3 THEN [raised |-> TRUE, value |-> None]
    ELSE IF ret[1] = <<>> THEN [raised |-> FALSE, value |-> None]
    ELSE [raised |-> FALSE,
          value |-> Some([texel_sizes |-> ret[1],
                          texture_utilization |-> ret[2],
                          texture_width |-> ret[3],
                          total_polygons |-> n_faces])]

\* process_tile_parallel's result for the stats process_glb_file returned:
\* `if stats:` is false for None and for the empty dict; **stats merges the
\* statistics into the result.
process_tile_parallel(tile_info, st) ==
    IF st # None /\ st # Some(<<>>)
    THEN Some([lod_level |-> tile_info.lod_level,
               tile_id |-> tile_info.tile_id,
               parent_id |-> tile_info.parent_id,
               tile_uri |-> tile_info.tile_url,
               screen_space_error |-> tile_info.screen_space_error] @@ st[1])
    ELSE None

TileInit ==
    /\ asset \in {"missing", "unparseable", "no_mesh", "mesh"}
    /\ has_uv \in BOOLEAN
    /\ image \in {None} \cup {Some(i) : i \in Images}
    /\ grid = {}
    /\ texel_sizes = <<>>
    /\ pixel_count = 0
    /\ last_face = NoFace
    /\ nfaces = 0
    /\ stats = None
    /\ result = None
    /\ tpc = "start"

\* process_tile_parallel up to the first face of the rasterizer's loop, or
\* through to its return where the tile yields nothing before that.
StartTile ==
    /\ tpc = "start"
    /\ IF asset \in {"missing", "unparseable"}
       THEN \* os.path.isfile fails, or the import's RuntimeError is caught
            /\ stats' = None
            /\ result' = process_tile_parallel(TileInfo0, None)
            /\ tpc' = "returned"
       ELSE IF asset = "no_mesh"
       THEN \* stats = {} is returned as it is
            /\ stats' = Some(<<>>)
            /\ result' = process_tile_parallel(TileInfo0, Some(<<>>))
            /\ tpc' = "returned"
       ELSE IF ~has_uv \/ image = None
       THEN LET r == calculate_statistics(early_return, 0)
            IN  /\ stats' = r.value
                /\ result' = process_tile_parallel(TileInfo0, r.value)
                /\ tpc' = IF r.raised THEN "raised" ELSE "returned"
       ELSE /\ tpc' = "raster"
            /\ UNCHANGED <<stats, result>>
    /\ UNCHANGED <<asset, has_uv, image, grid, texel_sizes, pixel_count, last_face, nfaces>>
    /\ UNCHANGED <<trav_vars, main_vars>>

\* One face of `for face in bm.faces`.
RasterFace ==
    /\ tpc = "raster"
    /\ nfaces < MaxFaces
    /\ \E face \in FaceViews[image[1]] :
         LET G == grid_resolution(image[1])
             r == raster_face(face, G, grid)
         IN  /\ last_face' = face
             /\ nfaces' = nfaces + 1
             /\ IF r.error
                THEN \* IndexError out of grid[v][u]
                     /\ tpc' = "raised"
                     /\ UNCHANGED <<grid, texel_sizes, pixel_count>>
                ELSE /\ tpc' = "raster"
                     /\ grid' = r.grid
                     /\ pixel_count' = r.pixel_count
                     /\ texel_sizes' =
                            IF r.pixel_count > 0
                            THEN Append(texel_sizes,
                                        texel_size(face.area, r.pixel_count, image[1], G))
                            ELSE texel_sizes
    /\ UNCHANGED <<asset, has_uv, image, stats, result>>
    /\ UNCHANGED <<trav_vars, main_vars>>

\* After the last face: the utilization, the return, calculate_statistics,
\* process_glb_file and process_tile_parallel.
FinishTile ==
    /\ tpc = "raster"
    /\ IF grid_resolution(image[1]) = 0
       THEN \* used_pixels / total_pixels divides by zero
            /\ tpc' = "raised"
            /\ UNCHANGED <<stats, result>>
       ELSE LET r == calculate_statistics(full_return(texel_sizes, grid, image[1]), nfaces)
            IN  /\ stats' = r.value
                /\ result' = process_tile_parallel(TileInfo0, r.value)
                /\ tpc' = IF r.raised THEN "raised" ELSE "returned"
    /\ UNCHANGED <<asset, has_uv, image, grid, texel_sizes, pixel_count, last_face, nfaces>>
    /\ UNCHANGED <<trav_vars, main_vars>>

----------------------------------------------------------------------------
\* main: the process pool, the filter and sort, write_results_to_csv.

\* The tilesets main runs on: up to MaxTiles tiles, each with a .glb, or a
\* root alone without content.
MainTilesets ==
    {ts \in Tilesets :
        /\ ts.n <= MaxTiles
        /\ \A c \in 2..ts.n : ts.kind[c] = "glb"
        /\ ts.kind[1] \in IF ts.n = 1 THEN {"glb", "none"} ELSE {"glb"}}

\* What is at a tile's path: no file, a mesh without an active UV layer, or a
\* mesh the statistics succeed on.
AssetKinds == {"missing", "no_uv", "ok"}

\* The statistics of the mesh of tile c, in whole units.  The six texel and
\* edge statistics are floats write_results_to_csv treats as it treats
\* texture_utilization.
tile_stats(c) == [texture_utilization |-> c, texture_width |-> 2 * c, total_polygons |-> c]

\* process_tile_parallel in a worker, on descriptor tile_info.
worker_result(tile_info) ==
    LET a == assets[tile_info.tile_url[1]]
    IN  IF a = "missing" THEN [raised |-> FALSE, value |-> process_tile_parallel(tile_info, None)]
        ELSE IF a = "no_uv"
        THEN [raised |-> calculate_statistics(early_return, 0).raised, value |-> None]
        ELSE [raised |-> FALSE,
              value |-> process_tile_parallel(tile_info, Some(tile_stats(tile_info.tile_url[1])))]

SeqRange(seq) == {seq[k] : k \in 1..Len(seq)}

\* A variant of next_result that yields results as they complete
\* (imap_unordered).
next_result_as_completed(n_results, done) ==
    IF Len(done) > n_results THEN Some(done[n_results + 1]) ELSE None

\* pool.imap yields the results in the order of the descriptors: the next one
\* is that of descriptor n_results + 1, once it is there.
next_result(n_results, done) ==
    IF (n_results + 1) \in SeqRange(done) THEN Some(n_results + 1) ELSE None

RECURSIVE SumSeq(_)
SumSeq(seq) == IF seq = <<>> THEN 0 ELSE Head(seq) + SumSeq(Tail(seq))

\* isinstance(value, (int, float)) for the value under a key of a result:
\* tile_uri is a string, parent_id and screen_space_error may be None.
is_number(key, value) ==
    IF key = "tile_uri" THEN FALSE
    ELSE IF key \in {"parent_id", "screen_space_error"} THEN value # None
    ELSE TRUE
number(key, value) ==
    IF key \in {"parent_id", "screen_space_error"} THEN value[1] ELSE value

\* The levels of the results, ascending: sorted(lod_groups.items()).
lod_levels(rows) == SetToSeq({rows[k].lod_level : k \in 1..Len(rows)})
lod_group(rows, lod) == SelectSeq(rows, LAMBDA r : r.lod_level = lod)

\* One summary row.  The keys averaged are decided on the first result of the
\* group; sum() raises TypeError on a None among the values of such a key.
summary_row(lod, group) ==
    LET mean_keys == {k \in DOMAIN group[1] \ {"total_polygons", "lod_level", "tile_id"} :
                         is_number(k, group[1][k])}
        raises == \E k \in mean_keys : \E i \in 1..Len(group) : ~is_number(k, group[i][k])
    IN  IF raises THEN [raised |-> TRUE, row |-> <<>>]
        ELSE [raised |-> FALSE,
              row |-> [k \in {"lod_level", "tile_id", "total_polygons"} \cup mean_keys |->
                        IF k = "lod_level" THEN lod
                        ELSE IF k = "tile_id" THEN Len(group)
                        ELSE IF k = "total_polygons"
                        THEN SumSeq([i \in 1..Len(group) |-> group[i].total_polygons])
                        ELSE <<SumSeq([i \in 1..Len(group) |-> number(k, group[i][k])]),
                               Len(group)>>]]

\* write_results_to_csv: the summary rows, then `keys = results[0].keys()`,
\* which raises IndexError on an empty list, then the rows written.  The
\* rendering of floats to four decimals is left out.
write_results_to_csv(rows) ==
    LET levels == lod_levels(rows)
        built == [k \in 1..Len(levels) |-> summary_row(levels[k], lod_group(rows, levels[k]))]
    IN  IF \E k \in 1..Len(levels) : built[k].raised THEN [raised |-> TRUE, written |-> None]
        ELSE IF rows = <<>> THEN [raised |-> TRUE, written |-> None]
        ELSE [raised |-> FALSE,
              written |-> Some([summary |-> [k \in 1..Len(levels) |-> built[k].row],
                                raw |-> rows])]

\* valid_results = [r for r in results if r is not None], then the sort.
valid_results(res) ==
    sort_by_lod([k \in 1..Len(SelectSeq(res, LAMBDA r : r # None)) |->
                    SelectSeq(res, LAMBDA r : r # None)[k][1]])

\* An idle worker takes the next descriptor.
TakeTask(w) ==
    /\ lpc = "returned" /\ mpc = "pool"
    /\ running[w] = 0
    /\ next_task <= Len(tiles_to_process)
    /\ running' = [running EXCEPT ![w] = next_task]
    /\ next_task' = next_task + 1
    /\ UNCHANGED <<assets, finished, results, report, mpc, tile_vars, trav_vars>>

\* A worker is through with its descriptor.
FinishTask(w) ==
    /\ lpc = "returned" /\ mpc = "pool"
    /\ running[w] # 0
    /\ finished' = Append(finished, running[w])
    /\ running' = [running EXCEPT ![w] = 0]
    /\ UNCHANGED <<assets, next_task, results, report, mpc, tile_vars, trav_vars>>

\* One iteration of `for i, result in enumerate(pool.imap(...))`: the next
\* result is appended, or the exception of its worker is raised in main.
Collect ==
    /\ lpc = "returned" /\ mpc = "pool"
    /\ Len(results) < Len(tiles_to_process)
    /\ next_result(Len(results), finished) # None
    /\ LET r == worker_result(tiles_to_process[next_result(Len(results), finished)[1]])
       IN  IF r.raised
           THEN /\ mpc' = "raised"
                /\ UNCHANGED results
           ELSE /\ results' = Append(results, r.value)
                /\ UNCHANGED mpc
    /\ UNCHANGED <<assets, next_task, running, finished, report, tile_vars, trav_vars>>

\* After the loop: the filter, the sort and write_results_to_csv.
WriteResults ==
    /\ lpc = "returned" /\ mpc = "pool"
    /\ Len(results) = Len(tiles_to_process)
    /\ LET w == write_results_to_csv(valid_results(results))
       IN  /\ mpc' = IF w.raised THEN "raised" ELSE "done"
           /\ report' = w.written
    /\ UNCHANGED <<assets, next_task, running, finished, results, tile_vars, trav_vars>>

----------------------------------------------------------------------------
\* The specifications.

\* The variables of a part that a specification does not exercise.
TileIdle ==
    /\ asset = "missing" /\ has_uv = FALSE /\ image = None /\ grid = {}
    /\ texel_sizes = <<>> /\ pixel_count = 0 /\ last_face = NoFace /\ nfaces = 0
    /\ stats = None /\ result = None /\ tpc = "start"

TravIdle ==
    /\ tileset = [n |-> 1, parent |-> <<0>>, kind |-> <<"none">>, no_error |-> {}]
    /\ tiles_dir = <<>>
    /\ tile_id_counter = 0
    /\ tiles_to_process = <<>>
    /\ calls = <<>>
    /\ lpc = "start"

MainIdle ==
    /\ assets = <<>> /\ next_task = 1 /\ running = [w \in 1..NumWorkers |-> 0]
    /\ finished = <<>> /\ results = <<>> /\ report = None /\ mpc = "pool"

\* One tile through process_tile_parallel.
TileSpecInit == TileInit /\ TravIdle /\ MainIdle
TileNext == StartTile \/ RasterFace \/ FinishTile
TileSpec == TileSpecInit /\ [][TileNext]_vars

\* load_tileset over every tileset of the bounds.
TraverseInit == TravInit /\ TileIdle /\ MainIdle
TraverseNext == LoadTileset
TraverseSpec == TraverseInit /\ [][TraverseNext]_vars

\* main, from load_tileset to the report.
MainInit ==
    /\ TravInit
    /\ tileset \in MainTilesets
    /\ tiles_dir = <<>>
    /\ TileIdle
    /\ assets \in [1..tileset.n -> AssetKinds]
    /\ next_task = 1
    /\ running = [w \in 1..NumWorkers |-> 0]
    /\ finished = <<>>
    /\ results = <<>>
    /\ report = None
    /\ mpc = "pool"

Next ==
    \/ LoadTileset
    \/ \E w \in 1..NumWorkers : TakeTask(w)
    \/ \E w \in 1..NumWorkers : FinishTask(w)
    \/ Collect
    \/ WriteResults

Spec == MainInit /\ [][Next]_vars

----------------------------------------------------------------------------
\* Claims about one tile.

\* C1: a mesh with no active UV layer, or no bound texture, or whose faces
\* mark no grid cell, yields stats None and an absent per-tile result, and no
\* error is raised.
C1_AbsentNeverFatal ==
    (asset = "mesh" /\ tpc \in {"returned", "raised"}
        /\ (~has_uv \/ image = None \/ grid = {}))
    => (tpc = "returned" /\ stats = None /\ result = None)

\* C7: a face whose UV footprint is degenerate (coincident or collinear
\* points) marks no cell and appends no texel size.
C7_DegenerateFaceMarksNothing ==
    (tpc = "raster" /\ nfaces > 0 /\ last_face.degenerate)
    => (pixel_count = 0 /\ (nfaces = 1 => grid = {} /\ texel_sizes = <<>>))

\* C9: a face whose UV coordinates all lie above 1, or all below 0, on some
\* axis marks no cell and appends no texel size.
C9_OutsideFaceMarksNothing ==
    (tpc = "raster" /\ nfaces > 0 /\ (last_face.above_one \/ last_face.below_zero))
    => (pixel_count = 0 /\ (nfaces = 1 => grid = {} /\ texel_sizes = <<>>))

\* C10, as claimed: the covered-cell count of a face is the number of cells of
\* its bounding box that pass the point-in-triangle test, cells an earlier
\* face marked included.
C10_CountIsPassingCells ==
    (tpc = "raster" /\ nfaces > 0) => pixel_count = Cardinality(PassingCells(last_face, grid_resolution(image[1])))

\* C10, amended: rastering a face marks the cells that pass its test, and the
\* face's count is the number of those cells that no earlier face had marked;
\* the face is appended to the texel-size list exactly when that count is
\* positive.
C10_CountIsNewlyMarked ==
    [][(tpc' = "raster" /\ nfaces' = nfaces + 1)
        => /\ grid' = grid \cup PassingCells(last_face', grid_resolution(image[1]))
           /\ pixel_count' = Cardinality(PassingCells(last_face', grid_resolution(image[1])) \ grid)
           /\ Len(texel_sizes') = Len(texel_sizes) + (IF pixel_count' > 0 THEN 1 ELSE 0)]_vars

\* A second face that covers cells of the first and marks new ones as well.
C10_Witness ==
    /\ tpc = "raster" /\ nfaces = 2
    /\ pixel_count > 0
    /\ pixel_count < Cardinality(PassingCells(last_face, grid_resolution(image[1])))

----------------------------------------------------------------------------
\* Claims about the traversal.

\* The tile_ids of the descriptors tile p emitted.
EmittedIds(p) ==
    {tiles_to_process[i].tile_id :
        i \in {k \in 1..Len(tiles_to_process) : tiles_to_process[k].tile_url[1] = p}}
LastId(S) == CHOOSE x \in S : \A y \in S : x >= y
\* c is a child of p (not the root of the document p refers to).
IsChild(c, p) == \E k \in 1..Len(children(tileset, p)) : children(tileset, p)[k] = c

\* A root without content, geometricError 16, and one child leaf with a .glb.
RootWithoutContent ==
    /\ tileset.n = 2
    /\ tileset.kind = <<"none", "glb">>
    /\ 1 \notin tileset.no_error

\* C2: process_tile_structure recurses into every child of every tile it
\* visits, with lod_level + 1 and with parent_id the tile's newly assigned
\* tile_id, or the parent id the tile received where it emitted no descriptor;
\* a root without content and one child leaf returns one descriptor, at
\* lod_level 1.
C2_ChildrenGetParentAndLevel ==
    lpc # "start" =>
        /\ \A p \in DOMAIN calls : \A c \in 1..tileset.n :
              IsChild(c, p) =>
                 /\ c \in DOMAIN calls
                 /\ calls[c].lod_level = calls[p].lod_level + 1
                 /\ calls[c].parent_id =
                       IF EmittedIds(p) # {} THEN Some(LastId(EmittedIds(p)))
                       ELSE calls[p].parent_id
        /\ RootWithoutContent =>
              /\ lpc = "returned"
              /\ Len(tiles_to_process) = 1
              /\ tiles_to_process[1].lod_level = 1

\* C8: the list load_tileset returns is ascending by lod_level, and within
\* one lod_level ascending by tile_id, the order of discovery.
C8_SortedStable ==
    lpc = "returned" =>
        \A i, j \in 1..Len(tiles_to_process) :
            i < j =>
               /\ tiles_to_process[i].lod_level <= tiles_to_process[j].lod_level
               /\ tiles_to_process[i].lod_level = tiles_to_process[j].lod_level
                     => tiles_to_process[i].tile_id < tiles_to_process[j].tile_id

\* A returned list the sort has reordered, with two tiles on one lod_level.
C8_Witness ==
    /\ lpc = "returned"
    /\ \E i, j \in 1..Len(tiles_to_process) :
          i < j /\ tiles_to_process[i].tile_id > tiles_to_process[j].tile_id
    /\ \E i, j \in 1..Len(tiles_to_process) :
          i < j /\ tiles_to_process[i].lod_level = tiles_to_process[j].lod_level

----------------------------------------------------------------------------
\* Claims about main and the report.

\* The descriptors whose tile yields no result: the file is missing, or the
\* mesh has no UV layer.
Absent == {i \in 1..Len(tiles_to_process) :
              assets[tiles_to_process[i].tile_url[1]] # "ok"}
\* The result of descriptor i, from the descriptor and the tile's statistics.
RowOf(i) ==
    LET d == tiles_to_process[i]
        c == d.tile_url[1]
    IN  [lod_level |-> d.lod_level, tile_id |-> d.tile_id, parent_id |-> d.parent_id,
         tile_uri |-> d.tile_url, screen_space_error |-> d.screen_space_error,
         texture_utilization |-> c, texture_width |-> 2 * c, total_polygons |-> c]
\* The results that are not absent, in the order of the descriptors.
PresentIndices == SelectSeq([i \in 1..Len(tiles_to_process) |-> i], LAMBDA i : i \notin Absent)
PresentRows == [k \in 1..Len(PresentIndices) |-> RowOf(PresentIndices[k])]
\* main has ended, with the report or with an exception.
MainEnded == lpc = "returned" /\ mpc # "pool"
\* The loop over pool.imap has collected a result for every descriptor.
AllCollected == lpc = "returned" /\ Len(results) = Len(tiles_to_process)

\* C3: with no result left after the filter, write_results_to_csv produces no
\* summary row and the run ends normally.
C3_EmptyResultsNotFatal ==
    (MainEnded /\ AllCollected /\ \A k \in 1..Len(results) : results[k] = None)
    => (mpc = "done" /\ report # None /\ report[1].summary = <<>>)

\* C4: of n descriptors with k absent results, n results are collected, the
\* report has n - k raw rows and the tile counts of its summary rows sum to
\* n - k.
C4_ReportCountsPresent ==
    MainEnded =>
        /\ Len(results) = Len(tiles_to_process)
        /\ mpc = "done"
        /\ report # None
        /\ Len(report[1].raw) = Len(tiles_to_process) - Cardinality(Absent)
        /\ SumSeq([k \in 1..Len(report[1].summary) |-> report[1].summary[k].tile_id])
              = Len(tiles_to_process) - Cardinality(Absent)

\* C5: how main ends is decided by the descriptors and the tiles alone,
\* whatever the order in which the workers finish: it raises exactly when a
\* worker raised or write_results_to_csv raises on the present rows, and
\* otherwise the raw rows are the present rows in the order of the
\* descriptors and the summary rows are those of the present rows.
C5_ReportIndependentOfCompletion ==
    MainEnded =>
        LET fatal == \E i \in 1..Len(tiles_to_process) :
                        assets[tiles_to_process[i].tile_url[1]] = "no_uv"
            w == write_results_to_csv(PresentRows)
        IN  IF fatal \/ w.raised THEN mpc = "raised" /\ report = None
            ELSE /\ mpc = "done"
                 /\ report[1].raw = PresentRows
                 /\ report[1].summary = w.written[1].summary

\* The report is written although a later descriptor of a level was finished
\* before an earlier one of the same level.
C5_Witness ==
    /\ mpc = "done"
    /\ \E a, b \in 1..Len(finished) :
          /\ a < b /\ finished[a] > finished[b]
          /\ {finished[a], finished[b]} \cap Absent = {}
          /\ tiles_to_process[finished[a]].lod_level = tiles_to_process[finished[b]].lod_level

\* The rows given to write_results_to_csv.
Written == valid_results(results)
GroupOf(lod) == lod_group(Written, lod)
\* C6: for a non-empty list of results write_results_to_csv builds one summary
\* row per lod_level, ascending, with the group's size as tile count, the sum
\* of total_polygons, and the mean over the group of every other numeric
\* field, screen_space_error and parent_id included where some tiles of the
\* group have them and others have none.
C6_SummaryRowPerLevel ==
    (MainEnded /\ AllCollected /\ Written # <<>>) =>
        /\ mpc = "done"
        /\ report # None
        /\ LET summary == report[1].summary
               levels == lod_levels(Written)
           IN  /\ Len(summary) = Len(levels)
               /\ \A k \in 1..Len(summary) :
                     LET group == GroupOf(levels[k])
                         having(key) == SelectSeq(group, LAMBDA r : r[key] # None)
                     IN  /\ summary[k].lod_level = levels[k]
                         /\ summary[k].tile_id = Len(group)
                         /\ summary[k].total_polygons =
                               SumSeq([i \in 1..Len(group) |-> group[i].total_polygons])
                         /\ summary[k].texture_width =
                               <<SumSeq([i \in 1..Len(group) |-> group[i].texture_width]),
                                 Len(group)>>
                         /\ \A key \in {"screen_space_error", "parent_id"} :
                               having(key) # <<>> =>
                                  /\ key \in DOMAIN summary[k]
                                  /\ Len(having(key)) = Len(group) =>
                                        summary[k][key] =
                                           <<SumSeq([i \in 1..Len(group) |-> group[i][key][1]]),
                                             Len(group)>>

====
